---------------------------- MODULE Spec2Model ----------------------------
(***************************************************************************)
(* A model of the copilot-api relay: the alias table of                   *)
(* lib/model-normalization.ts, the chat-completions relay with its single  *)
(* refresh-and-retry of services/copilot/create-chat-completions.ts, the   *)
(* handler and stream accumulator of routes/chat-completions/handler.ts,   *)
(* the model listing of routes/models/route.ts and the manual refresh of   *)
(* routes/token/route.ts.                                                  *)
(*                                                                         *)
(* JavaScript values are written as TLA+ strings: ids, text and JSON       *)
(* literals ("true", "false") are themselves, undefined and null are the   *)
(* two markers below.                                                      *)
(***************************************************************************)
EXTENDS Integers, Sequences, FiniteSets, TLC

VARIABLES
    copilotToken,      \* state.copilotToken: 0 is undefined, n > 0 the n-th credential
    pc,                \* per request: where its handler is suspended
    payload,           \* per request: the client's JSON body
    sent,              \* per request: the bodies put on the wire, oldest first
    responses,         \* per request: the upstream statuses received, oldest first
    refreshResults,    \* per request: what refreshCopilotTokenOnError returned
    outcome,           \* per request: the events handed back, or the error thrown
    modelIds,          \* alias registry: the argument of expandModelIdsWithAliases
    cursor,            \* alias registry: the position of the outer loop
    expandedModelIds,  \* alias registry: the output list
    seenModelIds,      \* alias registry: the set of ids already output
    normalized,        \* alias registry: an id, and normalizeModelName applied to it
    stream,            \* accumulator: the events the upstream sends, in order
    consumed,          \* accumulator: how many of them the loop has read
    foldPc,            \* accumulator: "idle", "consuming" or "done"
    accumulator,       \* accumulator: the StreamAccumulator
    response,          \* accumulator: what buildResponse returned
    request,           \* handler: the client's JSON body in handleCompletion
    written,           \* handler: the messages written to the client's SSE stream
    handlerPc,         \* handler: where handleCompletion is after the relay returned
    listing,           \* model listing: whether GET /models has answered, and its rows
    refreshPc,         \* per POST /token/refresh: "idle", "acquiring" or "replied"
    refreshReply,      \* per POST /token/refresh: the status and body it answered with
    refreshTrace,      \* per POST /token/refresh: what getCopilotToken settled with, and
                       \* state.copilotToken before and after the handler resumed
    inFlight,          \* per request: its call of collectStreamToResponse: the stream,
                       \* the events read, and the events others read meanwhile
    heap,              \* the StreamAccumulator objects, by reference
    buffered           \* per request: the response its call returned

relayVars == <<copilotToken, pc, payload, sent, responses, refreshResults, outcome>>
aliasVars == <<modelIds, cursor, expandedModelIds, seenModelIds, normalized>>
foldVars == <<stream, consumed, foldPc, accumulator, response>>
handlerVars == <<request, written, handlerPc>>
listingVars == <<listing>>
tokenRouteVars == <<refreshPc, refreshReply, refreshTrace>>
concurrentVars == <<inFlight, heap, buffered>>
vars ==
    <<relayVars, aliasVars, foldVars, handlerVars, listingVars, tokenRouteVars,
      concurrentVars>>

\* What the actions of one component leave alone.
outsideRelay ==
    <<aliasVars, foldVars, handlerVars, listingVars, tokenRouteVars, concurrentVars>>
outsideAlias == <<relayVars, foldVars, handlerVars, tokenRouteVars, concurrentVars>>
outsideFold ==
    <<relayVars, aliasVars, handlerVars, listingVars, tokenRouteVars, concurrentVars>>
outsideHandler == <<relayVars, aliasVars, listingVars, tokenRouteVars, concurrentVars>>
outsideTokenRoute ==
    <<pc, payload, sent, responses, refreshResults, outcome,
      aliasVars, foldVars, handlerVars, listingVars, concurrentVars>>
outsideConcurrent ==
    <<relayVars, aliasVars, foldVars, handlerVars, listingVars, tokenRouteVars>>

Undefined == "<undefined>"
Null == "<null>"

-----------------------------------------------------------------------------
(* Bounds *)

NumRequests == 2
MaxIds == 3
MaxEvents == 3
MaxRefreshPosts == 3

Requests == 1..NumRequests
RefreshPosts == 1..MaxRefreshPosts

-----------------------------------------------------------------------------
(* lib/model-normalization.ts *)

modelAliasEntries_SuffixOnly ==
    << <<"claude-opus-4-6[1M]", "claude-opus-4-6">>,
       <<"claude-opus-4-6", "claude-opus-4.6-1m">>,
       <<"claude-sonnet-4-6", "claude-sonnet-4.6">>,
       <<"claude-haiku-4-5", "claude-haiku-4.5">> >>

\* The object literal, as Object.entries lists it (insertion order).
modelAliasEntries ==
    << <<"claude-opus-4-6[1M]", "claude-opus-4.6-1m">>,
       <<"claude-opus-4-6", "claude-opus-4.6-1m">>,
       <<"claude-sonnet-4-6", "claude-sonnet-4.6">>,
       <<"claude-haiku-4-5", "claude-haiku-4.5">> >>

AliasKeys == {modelAliasEntries[i][1] : i \in DOMAIN modelAliasEntries}

\* The value Object.prototype.constructor, written as its string conversion
\* (which is also the property key it becomes when used as one).
ObjectConstructor == "function Object() { [native code] }"

\* The properties an object literal inherits from Object.prototype; the one
\* the model's client ids can name.
ObjectPrototype == [k \in {"constructor"} |-> ObjectConstructor]

\* modelAliases[key]: an own property, else an inherited one, else undefined.
modelAliases(key) ==
    IF key \in AliasKeys
    THEN LET i == CHOOSE j \in DOMAIN modelAliasEntries : modelAliasEntries[j][1] = key
         IN modelAliasEntries[i][2]
    ELSE IF key \in DOMAIN ObjectPrototype THEN ObjectPrototype[key]
    ELSE Undefined

normalizeModelName(modelId) ==
    LET v == modelAliases(modelId) IN
    IF v = Undefined \/ v = Null THEN modelId ELSE v

RECURSIVE ReverseUpTo(_)
ReverseUpTo(n) ==
    IF n = 0 THEN [c \in {} |-> <<>>]
    ELSE LET prev == ReverseUpTo(n - 1)
             alias == modelAliasEntries[n][1]
             canonical == modelAliasEntries[n][2]
             aliases == IF canonical \in DOMAIN prev THEN prev[canonical] ELSE <<>>
         IN [c \in DOMAIN prev \cup {canonical} |->
                IF c = canonical THEN Append(aliases, alias) ELSE prev[c]]

reverseModelAliases == ReverseUpTo(Len(modelAliasEntries))

getModelAliases(modelId) ==
    IF modelId \in DOMAIN reverseModelAliases THEN reverseModelAliases[modelId] ELSE <<>>

-----------------------------------------------------------------------------
(* services/copilot/create-chat-completions.ts and handleCompletion *)

\* What the model's clients send: every alias key, a canonical id, an id the
\* table does not know and an id that names an inherited property, over the
\* four stream flags.  doFetch treats the two fields independently.
Payloads ==
    { [model |-> "claude-opus-4-6[1M]", stream |-> "true"],
      [model |-> "claude-opus-4-6", stream |-> "false"],
      [model |-> "claude-sonnet-4-6", stream |-> Null],
      [model |-> "claude-haiku-4-5", stream |-> Undefined],
      [model |-> "claude-opus-4.6-1m", stream |-> "false"],
      [model |-> "gpt-4o", stream |-> "true"],
      [model |-> "constructor", stream |-> Undefined] }

NoPayload == [model |-> Undefined, stream |-> Undefined]

\* What fetch resolves to (a Response with a status) or rejects with.
FetchResults ==
    {[rejected |-> FALSE, status |-> s] : s \in {200, 401, 403, 500}}
        \cup {[rejected |-> TRUE, status |-> 0]}

\* JSON.stringify leaves out a property whose value is undefined or a function.
JSONStringify(body) ==
    [body EXCEPT !.model = IF @ = ObjectConstructor THEN Undefined ELSE @]

doFetchBody_PayloadAsIs(p, streamOverride) ==
    JSONStringify([p EXCEPT !.model = normalizeModelName(p.model)])

\* The body doFetch puts on the wire (lines 49-52 and 69-77).
doFetchBody(p, streamOverride) ==
    LET normalizedPayload == [p EXCEPT !.model = normalizeModelName(p.model)]
        body == IF streamOverride # Undefined
                THEN [normalizedPayload EXCEPT !.stream = streamOverride]
                ELSE normalizedPayload
    IN JSONStringify(body)

ResponseOk(status) == status \in 200..299

NoOutcome == [kind |-> "none", status |-> 0, call |-> 0]

\* Lines 123-128: throw HTTPError carrying the response, or return its events.
Settle(status, call) ==
    IF ~ResponseOk(status)
    THEN [kind |-> "HTTPError", status |-> status, call |-> call]
    ELSE [kind |-> "events", status |-> status, call |-> call]

PcAfter(o) == IF o.kind = "events" THEN "streaming" ELSE "failed"

\* lib/token.ts, refreshCopilotTokenOnError: acquire a credential and store
\* it; a failed acquisition is swallowed and reported as false.
refreshCopilotTokenOnError(token, acquired) ==
    IF acquired
    THEN [token |-> token + 1, refreshed |-> TRUE]
    ELSE [token |-> token, refreshed |-> FALSE]

HandleCompletion_NoTokenCheck(r, p) ==
    /\ pc[r] = "idle"
    /\ \A q \in Requests : q < r => pc[q] # "idle"
    /\ payload' = [payload EXCEPT ![r] = p]
    /\ pc' = [pc EXCEPT ![r] = "await1"]
    /\ sent' = [sent EXCEPT ![r] = Append(@, [body |-> doFetchBody(p, "true")])]
    /\ outcome' = outcome
    /\ UNCHANGED <<copilotToken, responses, refreshResults>>

\* handleCompletion up to the first suspension inside doFetch: the body is
\* read and the first upstream call is issued, or doFetch throws.
HandleCompletion(r, p) ==
    /\ pc[r] = "idle"
    /\ \A q \in Requests : q < r => pc[q] # "idle"
    /\ payload' = [payload EXCEPT ![r] = p]
    /\ IF copilotToken = 0
       THEN /\ pc' = [pc EXCEPT ![r] = "failed"]
            /\ outcome' = [outcome EXCEPT ![r] =
                              [kind |-> "Error", status |-> 0, call |-> 0]]
            /\ sent' = sent
       ELSE /\ pc' = [pc EXCEPT ![r] = "await1"]
            /\ sent' = [sent EXCEPT ![r] =
                           Append(@, [body |-> doFetchBody(p, "true")])]
            /\ outcome' = outcome
    /\ UNCHANGED <<copilotToken, responses, refreshResults>>

FirstResponse_RefreshOnAnyError(r, res) ==
    /\ pc[r] = "await1"
    /\ responses' = [responses EXCEPT ![r] = Append(@, res)]
    /\ IF res.rejected
       THEN /\ pc' = [pc EXCEPT ![r] = "failed"]
            /\ outcome' = [outcome EXCEPT ![r] =
                              [kind |-> "FetchError", status |-> 0, call |-> 1]]
       ELSE IF ~ResponseOk(res.status)
       THEN /\ pc' = [pc EXCEPT ![r] = "refreshing"]
            /\ outcome' = outcome
       ELSE /\ pc' = [pc EXCEPT ![r] = PcAfter(Settle(res.status, 1))]
            /\ outcome' = [outcome EXCEPT ![r] = Settle(res.status, 1)]
    /\ UNCHANGED <<copilotToken, payload, sent, refreshResults>>

\* The first upstream response arrives (lines 113-126).
FirstResponse(r, res) ==
    /\ pc[r] = "await1"
    /\ responses' = [responses EXCEPT ![r] = Append(@, res)]
    /\ IF res.rejected
       THEN /\ pc' = [pc EXCEPT ![r] = "failed"]
            /\ outcome' = [outcome EXCEPT ![r] =
                              [kind |-> "FetchError", status |-> 0, call |-> 1]]
       ELSE IF res.status = 401
       THEN /\ pc' = [pc EXCEPT ![r] = "refreshing"]
            /\ outcome' = outcome
       ELSE /\ pc' = [pc EXCEPT ![r] = PcAfter(Settle(res.status, 1))]
            /\ outcome' = [outcome EXCEPT ![r] = Settle(res.status, 1)]
    /\ UNCHANGED <<copilotToken, payload, sent, refreshResults>>

RefreshDone_RetryAnyway(r, acquired) ==
    LET done == refreshCopilotTokenOnError(copilotToken, acquired) IN
    /\ pc[r] = "refreshing"
    /\ copilotToken' = done.token
    /\ refreshResults' = [refreshResults EXCEPT ![r] = Append(@, done.refreshed)]
    /\ pc' = [pc EXCEPT ![r] = "await2"]
    /\ sent' = [sent EXCEPT ![r] =
                   Append(@, [body |-> doFetchBody(payload[r], "true")])]
    /\ outcome' = outcome
    /\ UNCHANGED <<payload, responses>>

\* refreshCopilotTokenOnError settles (lines 117-126): on true the call is
\* issued again, on false the first response is the one that is judged.
RefreshDone(r, acquired) ==
    LET done == refreshCopilotTokenOnError(copilotToken, acquired)
        first == responses[r][1]
    IN
    /\ pc[r] = "refreshing"
    /\ copilotToken' = done.token
    /\ refreshResults' = [refreshResults EXCEPT ![r] = Append(@, done.refreshed)]
    /\ IF done.refreshed
       THEN IF done.token = 0
            THEN /\ pc' = [pc EXCEPT ![r] = "failed"]
                 /\ outcome' = [outcome EXCEPT ![r] =
                                   [kind |-> "Error", status |-> 0, call |-> 0]]
                 /\ sent' = sent
            ELSE /\ pc' = [pc EXCEPT ![r] = "await2"]
                 /\ sent' = [sent EXCEPT ![r] =
                                Append(@, [body |-> doFetchBody(payload[r], "true")])]
                 /\ outcome' = outcome
       ELSE /\ pc' = [pc EXCEPT ![r] = PcAfter(Settle(first.status, 1))]
            /\ outcome' = [outcome EXCEPT ![r] = Settle(first.status, 1)]
            /\ sent' = sent
    /\ UNCHANGED <<payload, responses>>

SecondResponse_StaleResponse(r, res) ==
    /\ pc[r] = "await2"
    /\ responses' = [responses EXCEPT ![r] = Append(@, res)]
    /\ pc' = [pc EXCEPT ![r] = PcAfter(Settle(responses[r][1].status, 1))]
    /\ outcome' = [outcome EXCEPT ![r] = Settle(responses[r][1].status, 1)]
    /\ UNCHANGED <<copilotToken, payload, sent, refreshResults>>

SecondResponse_RefreshAgain(r, res) ==
    /\ pc[r] = "await2"
    /\ responses' = [responses EXCEPT ![r] = Append(@, res)]
    /\ IF res.status = 401
       THEN /\ pc' = [pc EXCEPT ![r] = "refreshing"]
            /\ outcome' = outcome
       ELSE /\ pc' = [pc EXCEPT ![r] = PcAfter(Settle(res.status, 2))]
            /\ outcome' = [outcome EXCEPT ![r] = Settle(res.status, 2)]
    /\ UNCHANGED <<copilotToken, payload, sent, refreshResults>>

\* The response of the retry arrives (lines 119-128): no further 401 test.
SecondResponse(r, res) ==
    /\ pc[r] = "await2"
    /\ responses' = [responses EXCEPT ![r] = Append(@, res)]
    /\ IF res.rejected
       THEN /\ pc' = [pc EXCEPT ![r] = "failed"]
            /\ outcome' = [outcome EXCEPT ![r] =
                              [kind |-> "FetchError", status |-> 0, call |-> 2]]
       ELSE /\ pc' = [pc EXCEPT ![r] = PcAfter(Settle(res.status, 2))]
            /\ outcome' = [outcome EXCEPT ![r] = Settle(res.status, 2)]
    /\ UNCHANGED <<copilotToken, payload, sent, refreshResults>>

-----------------------------------------------------------------------------
(* expandModelIdsWithAliases and normalizeModelName, applied to drawn inputs *)

\* The ids the model draws lists from: the alias keys, their canonical ids,
\* an id the table does not know and one that names an inherited property.
CatalogIds ==
    AliasKeys
        \cup {modelAliasEntries[i][2] : i \in DOMAIN modelAliasEntries}
        \cup {"gpt-4o", "constructor"}

RECURSIVE SeqsUpTo(_, _)
SeqsUpTo(S, n) ==
    IF n = 0 THEN {<<>>}
    ELSE LET shorter == SeqsUpTo(S, n - 1)
         IN shorter \cup {Append(q, x) : q \in {t \in shorter : Len(t) = n - 1}, x \in S}

RECURSIVE PushVariants_NoSeenCheck(_, _)
PushVariants_NoSeenCheck(variants, out) ==
    IF variants = <<>> THEN out
    ELSE PushVariants_NoSeenCheck(Tail(variants),
            [expanded |-> Append(out.expanded, Head(variants)),
             seen |-> out.seen \cup {Head(variants)}])

\* The inner loop (lines 34-40): push each variant not seen before.
RECURSIVE PushVariants(_, _)
PushVariants(variants, out) ==
    IF variants = <<>> THEN out
    ELSE IF Head(variants) \in out.seen
    THEN PushVariants(Tail(variants), out)
    ELSE PushVariants(Tail(variants),
            [expanded |-> Append(out.expanded, Head(variants)),
             seen |-> out.seen \cup {Head(variants)}])

\* One round of the outer loop (line 33).
ExpandNext ==
    /\ cursor <= Len(modelIds)
    /\ LET modelId == modelIds[cursor]
           out == PushVariants(<<modelId>> \o getModelAliases(modelId),
                               [expanded |-> expandedModelIds, seen |-> seenModelIds])
       IN /\ expandedModelIds' = out.expanded
          /\ seenModelIds' = out.seen
    /\ cursor' = cursor + 1
    /\ UNCHANGED <<modelIds, normalized>>

\* normalizeModelName applied to an id of the list.
NormalizeId(modelId) ==
    /\ normalized = <<>>
    /\ normalized' = <<modelId, normalizeModelName(modelId)>>
    /\ UNCHANGED <<modelIds, cursor, expandedModelIds, seenModelIds>>

\* normalizeModelName applied to its own result.
NormalizeAgain ==
    /\ Len(normalized) = 2
    /\ normalized' = Append(normalized, normalizeModelName(normalized[2]))
    /\ UNCHANGED <<modelIds, cursor, expandedModelIds, seenModelIds>>

ExpandDone == cursor > Len(modelIds)

-----------------------------------------------------------------------------
(* routes/models/route.ts *)

NoListing == [sent |-> FALSE, data |-> <<>>]

\* state.models.data: the upstream's catalog, one entry per id of the list,
\* each with a vendor and a name of its own.
Catalog(ids) ==
    [i \in DOMAIN ids |->
        [id |-> ids[i], vendor |-> "vendor" \o ToString(i), name |-> "name" \o ToString(i)]]

\* new Map(entries).get(key): the last entry under the key, if any.
modelById(catalog, key) ==
    LET at == {i \in DOMAIN catalog : catalog[i].id = key} IN
    IF at = {}
    THEN [found |-> FALSE, model |-> [id |-> key, vendor |-> Undefined, name |-> Undefined]]
    ELSE [found |-> TRUE, model |-> catalog[CHOOSE i \in at : \A j \in at : j <= i]]

\* Lines 26-39: the flatMap over the expanded ids.
RECURSIVE ListingRows(_, _)
ListingRows(catalog, ids) ==
    IF ids = <<>> THEN <<>>
    ELSE LET modelId == Head(ids)
             sourceModel == modelById(catalog, normalizeModelName(modelId))
         IN (IF ~sourceModel.found THEN <<>>
             ELSE << [id |-> modelId, object |-> "model", type |-> "model", created |-> 0,
                      owned_by |-> sourceModel.model.vendor,
                      display_name |-> sourceModel.model.name] >>)
            \o ListingRows(catalog, Tail(ids))

\* GET /models once expandModelIdsWithAliases has returned: the rows are
\* built and sent.
GetModels ==
    /\ ExpandDone
    /\ ~listing.sent
    /\ listing' = [sent |-> TRUE, data |-> ListingRows(Catalog(modelIds), expandedModelIds)]
    /\ UNCHANGED aliasVars

-----------------------------------------------------------------------------
(* routes/chat-completions/handler.ts: the accumulator *)

Truthy(v) == v \notin {Undefined, Null, ""}
Coalesce(v, d) == IF v \in {Undefined, Null} THEN d ELSE v

Frag(i, id, name, args) == [index |-> i, id |-> id, name |-> name, arguments |-> args]

Choice(finish, content, tools) ==
    [finish_reason |-> finish, content |-> content, tool_calls |-> tools]

\* The id, model, created, system_fingerprint and usage of a chunk: all
\* empty, or one of two full sets.
BlankHeader ==
    [id |-> "", model |-> "", created |-> 0,
     system_fingerprint |-> Undefined, usage |-> Undefined]

FullHeaders ==
    { [id |-> "id1", model |-> "m1", created |-> 1,
       system_fingerprint |-> "fp1", usage |-> "u1"],
      [id |-> "id2", model |-> "m2", created |-> 2,
       system_fingerprint |-> "fp2", usage |-> "u2"] }

\* A chunk that states an id and a fingerprint and nothing else.
PartialHeader ==
    [id |-> "id3", model |-> "", created |-> 0,
     system_fingerprint |-> "fp3", usage |-> Undefined]

\* The choices array of a chunk: empty, or one choice.  A delta without
\* tool_calls is written with the empty list (mergeToolCalls then does nothing).
ChoiceLists ==
    { <<>>,
      <<Choice(Null, "ab", <<>>)>>,
      <<Choice("stop", "", <<>>)>>,
      <<Choice("length", Null, <<>>)>>,
      <<Choice(Null, Undefined, <<Frag(0, "a", "f", "x")>>)>>,
      <<Choice(Null, Undefined, <<Frag(0, Undefined, Undefined, "y")>>)>>,
      <<Choice("tool_calls", Null,
               <<Frag(1, "b", "", Undefined), Frag(0, "c", "g", "z")>>)>>,
      <<Choice(Null, "ab", <<Frag(0, "", "f", "x")>>)>>,
      <<Choice(Null, "a", <<Frag(1, Undefined, "h", "")>>)>> }

NoChunk == [header |-> BlankHeader, choices |-> <<>>]

\* A server-sent event by what its data field holds.
NoDataEvent == [kind |-> "nodata", chunk |-> NoChunk]
DoneEvent == [kind |-> "done", chunk |-> NoChunk]
MalformedEvent == [kind |-> "malformed", chunk |-> NoChunk]
JsonNullEvent == [kind |-> "jsonnull", chunk |-> NoChunk]

\* The chunks the upstream sends: every choice list under the empty header,
\* the full headers with no choice and with a text delta, and the partial
\* header with no choice.
ChunkEvents ==
    {[kind |-> "json", chunk |-> [header |-> BlankHeader, choices |-> c]] :
        c \in ChoiceLists}
    \cup
    {[kind |-> "json", chunk |-> [header |-> h, choices |-> c]] :
        h \in FullHeaders, c \in {<<>>, <<Choice(Null, "ab", <<>>)>>}}
    \cup
    {[kind |-> "json", chunk |-> [header |-> PartialHeader, choices |-> <<>>]]}

Events == {NoDataEvent, DoneEvent, MalformedEvent, JsonNullEvent} \cup ChunkEvents

createAccumulator ==
    [id |-> "", model |-> "", created |-> 0, systemFingerprint |-> Undefined,
     finishReason |-> "stop", content |-> "", toolCalls |-> <<>>,
     usage |-> Undefined]

\* JSON.parse in its try block: null when it throws (and for the JSON text
\* null), else the parsed chunk.
parseChunkDataOrLog(ev) ==
    [isNull |-> ev.kind # "json", value |-> ev.chunk]

\* toolCalls is the Map, kept as its entries in insertion order.
ToolCallAt(toolCalls, index) ==
    {k \in DOMAIN toolCalls : toolCalls[k].index = index}

MergeOne_OverwriteId(toolCalls, delta) ==
    LET at == ToolCallAt(toolCalls, delta.index) IN
    IF at = {}
    THEN Append(toolCalls,
                [index |-> delta.index,
                 id |-> Coalesce(delta.id, ""),
                 name |-> Coalesce(delta.name, ""),
                 arguments |-> Coalesce(delta.arguments, "")])
    ELSE LET k == CHOOSE j \in at : TRUE
             existing == toolCalls[k]
         IN [toolCalls EXCEPT ![k] =
                [index |-> existing.index,
                 id |-> IF Truthy(delta.id) THEN delta.id ELSE existing.id,
                 name |-> IF ~Truthy(existing.name) /\ Truthy(delta.name)
                          THEN delta.name ELSE existing.name,
                 arguments |-> IF Truthy(delta.arguments)
                               THEN existing.arguments \o delta.arguments
                               ELSE existing.arguments]]

\* The body of the loop of mergeToolCalls (lines 178-197).
MergeOne(toolCalls, delta) ==
    LET at == ToolCallAt(toolCalls, delta.index) IN
    IF at = {}
    THEN Append(toolCalls,
                [index |-> delta.index,
                 id |-> Coalesce(delta.id, ""),
                 name |-> Coalesce(delta.name, ""),
                 arguments |-> Coalesce(delta.arguments, "")])
    ELSE LET k == CHOOSE j \in at : TRUE
             existing == toolCalls[k]
         IN [toolCalls EXCEPT ![k] =
                [index |-> existing.index,
                 id |-> IF ~Truthy(existing.id) /\ Truthy(delta.id)
                        THEN delta.id ELSE existing.id,
                 name |-> IF ~Truthy(existing.name) /\ Truthy(delta.name)
                          THEN delta.name ELSE existing.name,
                 arguments |-> IF Truthy(delta.arguments)
                               THEN existing.arguments \o delta.arguments
                               ELSE existing.arguments]]

RECURSIVE mergeToolCalls(_, _)
mergeToolCalls(toolCalls, deltas) ==
    IF deltas = <<>> THEN toolCalls
    ELSE mergeToolCalls(MergeOne(toolCalls, Head(deltas)), Tail(deltas))

ApplyHeader_LastModelWins(h, acc) ==
    [acc EXCEPT
        !.id = IF ~Truthy(@) /\ Truthy(h.id) THEN h.id ELSE @,
        !.model = IF Truthy(h.model) THEN h.model ELSE @,
        !.created = IF @ = 0 /\ h.created # 0 THEN h.created ELSE @,
        !.systemFingerprint =
            IF ~Truthy(@) /\ Truthy(h.system_fingerprint)
            THEN h.system_fingerprint ELSE @,
        !.usage = IF Truthy(h.usage) THEN h.usage ELSE @]

\* Lines 148-155: the latches and the usage.
ApplyHeader(h, acc) ==
    [acc EXCEPT
        !.id = IF ~Truthy(@) /\ Truthy(h.id) THEN h.id ELSE @,
        !.model = IF ~Truthy(@) /\ Truthy(h.model) THEN h.model ELSE @,
        !.created = IF @ = 0 /\ h.created # 0 THEN h.created ELSE @,
        !.systemFingerprint =
            IF ~Truthy(@) /\ Truthy(h.system_fingerprint)
            THEN h.system_fingerprint ELSE @,
        !.usage = IF Truthy(h.usage) THEN h.usage ELSE @]

applyChunkToAccumulator_OverwriteContent(parsed, acc) ==
    LET a == ApplyHeader(parsed.header, acc) IN
    IF parsed.choices = <<>> THEN a
    ELSE LET choice == parsed.choices[1] IN
         [a EXCEPT
            !.finishReason = IF Truthy(choice.finish_reason)
                             THEN choice.finish_reason ELSE @,
            !.content = IF choice.content \notin {Undefined, Null}
                        THEN choice.content ELSE @,
            !.toolCalls = mergeToolCalls(@, choice.tool_calls)]

applyChunkToAccumulator_FirstFinishReason(parsed, acc) ==
    LET a == ApplyHeader(parsed.header, acc) IN
    IF parsed.choices = <<>> THEN a
    ELSE LET choice == parsed.choices[1] IN
         [a EXCEPT
            !.finishReason = IF Truthy(choice.finish_reason) /\ @ = "stop"
                             THEN choice.finish_reason ELSE @,
            !.content = IF choice.content \notin {Undefined, Null}
                        THEN @ \o choice.content ELSE @,
            !.toolCalls = mergeToolCalls(@, choice.tool_calls)]

applyChunkToAccumulator(parsed, acc) ==
    LET a == ApplyHeader(parsed.header, acc) IN
    IF parsed.choices = <<>> THEN a
    ELSE LET choice == parsed.choices[1] IN
         [a EXCEPT
            !.finishReason = IF Truthy(choice.finish_reason)
                             THEN choice.finish_reason ELSE @,
            !.content = IF choice.content \notin {Undefined, Null}
                        THEN @ \o choice.content ELSE @,
            !.toolCalls = mergeToolCalls(@, choice.tool_calls)]

\* Array.from(toolCalls.values()): the entries in insertion order, without
\* their keys.
ToolCallValues(toolCalls) ==
    [k \in DOMAIN toolCalls |->
        [id |-> toolCalls[k].id, type |-> "function",
         function |-> [name |-> toolCalls[k].name,
                       arguments |-> toolCalls[k].arguments]]]

\* A property that is present only under a condition.
Optional(cond, name, value) ==
    IF cond THEN [n \in {name} |-> value] ELSE [n \in {} |-> value]

buildResponse(acc) ==
    [id |-> acc.id, object |-> "chat.completion", created |-> acc.created,
     model |-> acc.model,
     choices |-> <<[index |-> 0,
                    message |-> [role |-> "assistant",
                                 content |-> IF acc.content = "" THEN Null
                                             ELSE acc.content]
                                @@ Optional(Len(acc.toolCalls) > 0, "tool_calls",
                                            ToolCallValues(acc.toolCalls)),
                    logprobs |-> Null,
                    finish_reason |-> acc.finishReason]>>]
        @@ Optional(Truthy(acc.systemFingerprint), "system_fingerprint",
                    acc.systemFingerprint)
        @@ Optional(Truthy(acc.usage), "usage", acc.usage)

LoopBody_BreakOnMalformed(acc, ev) ==
    IF ev.kind = "nodata" THEN [acc |-> acc, stop |-> FALSE]
    ELSE IF ev.kind = "done" THEN [acc |-> acc, stop |-> TRUE]
    ELSE LET parsed == parseChunkDataOrLog(ev) IN
         IF parsed.isNull THEN [acc |-> acc, stop |-> TRUE]
         ELSE [acc |-> applyChunkToAccumulator(parsed.value, acc), stop |-> FALSE]

\* The body of the for-await loop (lines 108-113): stop is the break.
LoopBody(acc, ev) ==
    IF ev.kind = "nodata" THEN [acc |-> acc, stop |-> FALSE]
    ELSE IF ev.kind = "done" THEN [acc |-> acc, stop |-> TRUE]
    ELSE LET parsed == parseChunkDataOrLog(ev) IN
         IF parsed.isNull THEN [acc |-> acc, stop |-> FALSE]
         ELSE [acc |-> applyChunkToAccumulator(parsed.value, acc), stop |-> FALSE]

RECURSIVE FoldFrom(_, _)
FoldFrom(acc, events) ==
    IF events = <<>> THEN acc
    ELSE LET step == LoopBody(acc, Head(events)) IN
         IF step.stop THEN step.acc ELSE FoldFrom(step.acc, Tail(events))

\* collectStreamToResponse over a whole event sequence.
collectStreamToResponse(events) == buildResponse(FoldFrom(createAccumulator, events))

\* The generator yields its next event and the loop body runs on it; on the
\* break the response is built.
NextChunk ==
    /\ foldPc = "consuming"
    /\ consumed < Len(stream)
    /\ consumed' = consumed + 1
    /\ LET step == LoopBody(accumulator, stream[consumed + 1]) IN
          /\ accumulator' = step.acc
          /\ IF step.stop
             THEN /\ foldPc' = "done"
                  /\ response' = buildResponse(step.acc)
             ELSE /\ foldPc' = "consuming"
                  /\ response' = response
    /\ stream' = stream

\* The generator is exhausted: the loop ends and the response is built.
StreamEnds ==
    /\ foldPc = "consuming"
    /\ consumed = Len(stream)
    /\ foldPc' = "done"
    /\ response' = buildResponse(accumulator)
    /\ UNCHANGED <<stream, consumed, accumulator>>

-----------------------------------------------------------------------------
(* routes/token/route.ts: POST /token/refresh *)

\* What getCopilotToken settles with: a credential none of the earlier ones
\* equals, or a rejection.
Acquisitions ==
    {[ok |-> TRUE, token |-> t] : t \in 2..(MaxRefreshPosts + 1)}
        \cup {[ok |-> FALSE, token |-> 0]}

NoReply == [status |-> 0, success |-> FALSE, error |-> Undefined]
NoTrace == [acquired |-> [ok |-> FALSE, token |-> 0], before |-> 0, after |-> 0]

\* Line 21: the handler calls getCopilotToken and is suspended on it.
PostTokenRefresh(p) ==
    /\ refreshPc[p] = "idle"
    /\ \A q \in RefreshPosts : q < p => refreshPc[q] # "idle"
    /\ refreshPc' = [refreshPc EXCEPT ![p] = "acquiring"]
    /\ UNCHANGED <<copilotToken, refreshReply, refreshTrace>>

PostTokenRefreshDone_ClearOnFailure(p, acquired) ==
    /\ refreshPc[p] = "acquiring"
    /\ refreshPc' = [refreshPc EXCEPT ![p] = "replied"]
    /\ IF acquired.ok
       THEN /\ copilotToken' = acquired.token
            /\ refreshReply' = [refreshReply EXCEPT ![p] =
                    [status |-> 200, success |-> TRUE, error |-> Undefined]]
       ELSE /\ copilotToken' = 0
            /\ refreshReply' = [refreshReply EXCEPT ![p] =
                    [status |-> 500, success |-> FALSE, error |-> "Failed to refresh token"]]
    /\ refreshTrace' = [refreshTrace EXCEPT ![p] =
            [acquired |-> acquired, before |-> copilotToken, after |-> copilotToken']]

\* Lines 21-31: getCopilotToken settles; the token is stored and success
\* answered, or the catch block answers the error with status 500.
PostTokenRefreshDone(p, acquired) ==
    /\ refreshPc[p] = "acquiring"
    /\ refreshPc' = [refreshPc EXCEPT ![p] = "replied"]
    /\ IF acquired.ok
       THEN /\ copilotToken' = acquired.token
            /\ refreshReply' = [refreshReply EXCEPT ![p] =
                    [status |-> 200, success |-> TRUE, error |-> Undefined]]
       ELSE /\ copilotToken' = copilotToken
            /\ refreshReply' = [refreshReply EXCEPT ![p] =
                    [status |-> 500, success |-> FALSE, error |-> "Failed to refresh token"]]
    /\ refreshTrace' = [refreshTrace EXCEPT ![p] =
            [acquired |-> acquired, before |-> copilotToken, after |-> copilotToken']]

-----------------------------------------------------------------------------
(* routes/chat-completions/handler.ts: handleCompletion after the relay *)

\* The events the upstream sends to a handler: the four events without a
\* chunk, and a text delta under each header.
HandlerEvents ==
    {NoDataEvent, DoneEvent, MalformedEvent, JsonNullEvent}
    \cup
    {[kind |-> "json", chunk |-> [header |-> h, choices |-> <<Choice(Null, "ab", <<>>)>>]] :
        h \in {BlankHeader} \cup FullHeaders}

\* Line 53: payload.stream === true.
clientWantsStream(p) == p.stream = "true"

\* Lines 59-77: the handler enters streamSSE's callback, or
\* collectStreamToResponse, which creates its accumulator.
Dispatch ==
    /\ handlerPc = "relayed"
    /\ IF clientWantsStream(request)
       THEN /\ handlerPc' = "streaming"
            /\ UNCHANGED <<foldPc, accumulator>>
       ELSE /\ handlerPc' = "collecting"
            /\ foldPc' = "consuming"
            /\ accumulator' = createAccumulator
    /\ UNCHANGED <<request, written, stream, consumed, response>>

WriteSSE_SkipNoData ==
    /\ handlerPc = "streaming"
    /\ consumed < Len(stream)
    /\ consumed' = consumed + 1
    /\ written' = IF stream[consumed + 1].kind = "nodata"
                  THEN written
                  ELSE Append(written, stream[consumed + 1])
    /\ UNCHANGED <<request, handlerPc, stream, foldPc, accumulator, response>>

\* Lines 62-65: one turn of the for-await loop: the next upstream event is
\* handed to stream.writeSSE as it is.
WriteSSE ==
    /\ handlerPc = "streaming"
    /\ consumed < Len(stream)
    /\ consumed' = consumed + 1
    /\ written' = Append(written, stream[consumed + 1])
    /\ UNCHANGED <<request, handlerPc, stream, foldPc, accumulator, response>>

\* Lines 62-66: the upstream's events are exhausted, the callback returns
\* and streamSSE closes the client's stream.
StreamSSEEnds ==
    /\ handlerPc = "streaming"
    /\ consumed = Len(stream)
    /\ handlerPc' = "closed"
    /\ UNCHANGED <<request, written, stream, consumed, foldPc, accumulator, response>>

\* Lines 75-77: collectStreamToResponse has resolved and c.json sends it.
ReplyJson ==
    /\ handlerPc = "collecting"
    /\ foldPc = "done"
    /\ handlerPc' = "replied"
    /\ UNCHANGED <<request, written, stream, consumed, foldPc, accumulator, response>>

-----------------------------------------------------------------------------
(* routes/chat-completions/handler.ts: collectStreamToResponse, several calls *)

NotInFlight == [pc |-> "idle", stream |-> <<>>, consumed |-> 0, meanwhile |-> 0]

\* The upstream streams of the concurrent calls: text under a full header, a
\* tool call and the sentinel; text under the other header and a finish
\* reason; a tool call in two fragments with text.
ConcurrentStreams ==
    LET chunk(h, c) == [kind |-> "json", chunk |-> [header |-> h, choices |-> c]]
        h1 == CHOOSE h \in FullHeaders : h.id = "id1"
        h2 == CHOOSE h \in FullHeaders : h.id = "id2"
    IN { << chunk(h1, <<Choice(Null, "ab", <<>>)>>),
            chunk(BlankHeader, <<Choice(Null, Undefined, <<Frag(0, "a", "f", "x")>>)>>),
            DoneEvent >>,
         << chunk(h2, <<Choice(Null, "ab", <<>>)>>),
            chunk(BlankHeader, <<Choice("length", Null, <<>>)>>) >>,
         << chunk(BlankHeader, <<Choice(Null, "a", <<Frag(1, Undefined, "h", "")>>)>>),
            chunk(BlankHeader, <<Choice(Null, Undefined, <<Frag(0, Undefined, Undefined, "y")>>)>>),
            chunk(PartialHeader, <<>>) >> }

AccumulatorRef_ModuleLevel(r) == CHOOSE q \in Requests : \A x \in Requests : q <= x

\* Line 105: the accumulator of call r is the object createAccumulator
\* returns to it, a new one for each call.
AccumulatorRef(r) == r

\* Another call's event was read: every call in its loop has seen one more.
Meanwhile(r) ==
    [q \in Requests |->
        IF q # r /\ inFlight[q].pc = "consuming"
        THEN [inFlight[q] EXCEPT !.meanwhile = @ + 1]
        ELSE inFlight[q]]

\* Lines 102-105: call r starts on its stream and creates its accumulator.
CollectStart(r, events) ==
    /\ inFlight[r].pc = "idle"
    /\ inFlight' = [inFlight EXCEPT ![r] =
                       [pc |-> "consuming", stream |-> events, consumed |-> 0,
                        meanwhile |-> 0]]
    /\ heap' = [heap EXCEPT ![AccumulatorRef(r)] = createAccumulator]
    /\ UNCHANGED buffered

\* Lines 107-116: call r reads its next event and runs the loop body on its
\* accumulator; on the break it builds its response.
CollectNext(r) ==
    /\ inFlight[r].pc = "consuming"
    /\ inFlight[r].consumed < Len(inFlight[r].stream)
    /\ LET ref == AccumulatorRef(r)
           step == LoopBody(heap[ref], inFlight[r].stream[inFlight[r].consumed + 1])
       IN /\ heap' = [heap EXCEPT ![ref] = step.acc]
          /\ inFlight' = [Meanwhile(r) EXCEPT
                             ![r].consumed = @ + 1,
                             ![r].pc = IF step.stop THEN "done" ELSE "consuming"]
          /\ buffered' = IF step.stop
                         THEN [buffered EXCEPT ![r] = buildResponse(step.acc)]
                         ELSE buffered

\* Lines 107 and 116: the stream of call r is exhausted and it builds its
\* response.
CollectEnds(r) ==
    /\ inFlight[r].pc = "consuming"
    /\ inFlight[r].consumed = Len(inFlight[r].stream)
    /\ inFlight' = [inFlight EXCEPT ![r].pc = "done"]
    /\ buffered' = [buffered EXCEPT ![r] = buildResponse(heap[AccumulatorRef(r)])]
    /\ UNCHANGED heap

-----------------------------------------------------------------------------
(* Specifications *)

RelayInit ==
    /\ copilotToken \in {0, 1}
    /\ pc = [r \in Requests |-> "idle"]
    /\ payload = [r \in Requests |-> NoPayload]
    /\ sent = [r \in Requests |-> <<>>]
    /\ responses = [r \in Requests |-> <<>>]
    /\ refreshResults = [r \in Requests |-> <<>>]
    /\ outcome = [r \in Requests |-> NoOutcome]

AliasIdle ==
    /\ modelIds = <<>>
    /\ cursor = 1
    /\ expandedModelIds = <<>>
    /\ seenModelIds = {}
    /\ normalized = <<>>

FoldIdle ==
    /\ stream = <<>>
    /\ consumed = 0
    /\ foldPc = "idle"
    /\ accumulator = <<>>
    /\ response = <<>>

HandlerIdle ==
    /\ request = NoPayload
    /\ written = <<>>
    /\ handlerPc = "idle"

ListingIdle == listing = NoListing

ConcurrentIdle ==
    /\ inFlight = [r \in Requests |-> NotInFlight]
    /\ heap = [r \in Requests |-> createAccumulator]
    /\ buffered = [r \in Requests |-> <<>>]

TokenRouteIdle ==
    /\ refreshPc = [p \in RefreshPosts |-> "idle"]
    /\ refreshReply = [p \in RefreshPosts |-> NoReply]
    /\ refreshTrace = [p \in RefreshPosts |-> NoTrace]

Init ==
    /\ RelayInit /\ AliasIdle /\ FoldIdle /\ HandlerIdle /\ ListingIdle
    /\ TokenRouteIdle /\ ConcurrentIdle

Next ==
    \/ \E r \in Requests, p \in Payloads :
          HandleCompletion(r, p) /\ UNCHANGED outsideRelay
    \/ \E r \in Requests, res \in FetchResults :
          FirstResponse(r, res) /\ UNCHANGED outsideRelay
    \/ \E r \in Requests, acquired \in BOOLEAN :
          RefreshDone(r, acquired) /\ UNCHANGED outsideRelay
    \/ \E r \in Requests, res \in FetchResults :
          SecondResponse(r, res) /\ UNCHANGED outsideRelay

Spec == Init /\ [][Next]_vars

RelayIdle ==
    /\ copilotToken = 1
    /\ pc = [r \in Requests |-> "idle"]
    /\ payload = [r \in Requests |-> NoPayload]
    /\ sent = [r \in Requests |-> <<>>]
    /\ responses = [r \in Requests |-> <<>>]
    /\ refreshResults = [r \in Requests |-> <<>>]
    /\ outcome = [r \in Requests |-> NoOutcome]

AliasInit ==
    /\ modelIds \in SeqsUpTo(CatalogIds, MaxIds)
    /\ cursor = 1
    /\ expandedModelIds = <<>>
    /\ seenModelIds = {}
    /\ normalized = <<>>

InitAlias ==
    /\ RelayIdle /\ AliasInit /\ FoldIdle /\ HandlerIdle /\ ListingIdle
    /\ TokenRouteIdle /\ ConcurrentIdle

NextAlias ==
    \/ ExpandNext /\ UNCHANGED <<outsideAlias, listingVars>>
    \/ \E i \in DOMAIN modelIds :
          NormalizeId(modelIds[i]) /\ UNCHANGED <<outsideAlias, listingVars>>
    \/ NormalizeAgain /\ UNCHANGED <<outsideAlias, listingVars>>
    \/ GetModels /\ UNCHANGED outsideAlias

SpecAlias == InitAlias /\ [][NextAlias]_vars

FoldInit ==
    /\ stream \in SeqsUpTo(Events, MaxEvents)
    /\ consumed = 0
    /\ foldPc = "consuming"
    /\ accumulator = createAccumulator
    /\ response = <<>>

InitFold ==
    /\ RelayIdle /\ AliasIdle /\ FoldInit /\ HandlerIdle /\ ListingIdle
    /\ TokenRouteIdle /\ ConcurrentIdle

NextFold ==
    \/ NextChunk /\ UNCHANGED outsideFold
    \/ StreamEnds /\ UNCHANGED outsideFold

SpecFold == InitFold /\ [][NextFold]_vars

\* handleCompletion at the point where createChatCompletionsStream has
\* returned the upstream's events for the client's request.
HandlerInit ==
    /\ request \in Payloads
    /\ stream \in SeqsUpTo(HandlerEvents, MaxEvents)
    /\ consumed = 0
    /\ foldPc = "idle"
    /\ accumulator = <<>>
    /\ response = <<>>
    /\ written = <<>>
    /\ handlerPc = "relayed"

InitHandler ==
    /\ RelayIdle /\ AliasIdle /\ HandlerInit /\ ListingIdle
    /\ TokenRouteIdle /\ ConcurrentIdle

NextHandler ==
    \/ Dispatch /\ UNCHANGED outsideHandler
    \/ WriteSSE /\ UNCHANGED outsideHandler
    \/ StreamSSEEnds /\ UNCHANGED outsideHandler
    \/ NextChunk /\ UNCHANGED <<outsideHandler, handlerVars>>
    \/ StreamEnds /\ UNCHANGED <<outsideHandler, handlerVars>>
    \/ ReplyJson /\ UNCHANGED outsideHandler

SpecHandler == InitHandler /\ [][NextHandler]_vars

\* The token route alone: the requests for a refresh arrive with or without
\* a credential in the store.
InitTokenRoute ==
    /\ RelayInit /\ AliasIdle /\ FoldIdle /\ HandlerIdle /\ ListingIdle
    /\ TokenRouteIdle /\ ConcurrentIdle

NextTokenRoute ==
    \/ \E p \in RefreshPosts :
          PostTokenRefresh(p) /\ UNCHANGED outsideTokenRoute
    \/ \E p \in RefreshPosts, acquired \in Acquisitions :
          PostTokenRefreshDone(p, acquired) /\ UNCHANGED outsideTokenRoute

SpecTokenRoute == InitTokenRoute /\ [][NextTokenRoute]_vars

\* Several non-streaming requests whose relays have returned their streams.
InitConcurrent ==
    /\ RelayIdle /\ AliasIdle /\ FoldIdle /\ HandlerIdle /\ ListingIdle
    /\ TokenRouteIdle /\ ConcurrentIdle

NextConcurrent ==
    \/ \E r \in Requests, events \in ConcurrentStreams :
          CollectStart(r, events) /\ UNCHANGED outsideConcurrent
    \/ \E r \in Requests : CollectNext(r) /\ UNCHANGED outsideConcurrent
    \/ \E r \in Requests : CollectEnds(r) /\ UNCHANGED outsideConcurrent

SpecConcurrent == InitConcurrent /\ [][NextConcurrent]_vars

-----------------------------------------------------------------------------
(* The relay's refresh-and-retry: C1 - C5, checked under Spec *)

\* The calls of refreshCopilotTokenOnError request r has made.
RefreshCalls(r) ==
    Len(refreshResults[r]) + (IF pc[r] = "refreshing" THEN 1 ELSE 0)

RECURSIVE SumOver(_, _)
SumOver(f, n) == IF n = 0 THEN 0 ELSE f[n] + SumOver(f, n - 1)

TotalCalls == SumOver([r \in Requests |-> Len(sent[r])], NumRequests)
TotalRefreshes == SumOver([r \in Requests |-> RefreshCalls(r)], NumRequests)

Got(r, i, status) ==
    /\ Len(responses[r]) >= i
    /\ ~responses[r][i].rejected
    /\ responses[r][i].status = status

\* 401, then a refresh that succeeded, then 200.
RefreshedThenOk(r) ==
    /\ Got(r, 1, 401)
    /\ Len(refreshResults[r]) >= 1 /\ refreshResults[r][1]
    /\ Got(r, 2, 200)

\* C1: a request whose first call got 401, whose refresh succeeded and whose
\* second call got 200 returns the events of the second response, having
\* refreshed exactly once and called upstream exactly twice.
C1_RetryYieldsSecondStream ==
    \A r \in Requests :
        RefreshedThenOk(r) =>
            /\ pc[r] = "streaming"
            /\ outcome[r] = [kind |-> "events", status |-> 200, call |-> 2]
            /\ RefreshCalls(r) = 1
            /\ Len(sent[r]) = 2

C1_Witness ==
    \E r \in Requests :
        /\ RefreshedThenOk(r)
        /\ outcome[r].kind = "events"

\* C2: no request makes more than two upstream calls or more than one
\* refresh; a 401 on the call after the refresh is the request's failure; over
\* all N requests there are at most 2N calls and N refreshes.
C2_AtMostOneRetry ==
    /\ \A r \in Requests :
          /\ Len(sent[r]) <= 2
          /\ RefreshCalls(r) <= 1
          /\ Got(r, 2, 401) =>
                /\ pc[r] = "failed"
                /\ outcome[r] = [kind |-> "HTTPError", status |-> 401, call |-> 2]
    /\ TotalCalls <= 2 * NumRequests
    /\ TotalRefreshes <= NumRequests

C2_Witness ==
    /\ \E r \in Requests : Got(r, 2, 401) /\ pc[r] = "failed"
    /\ TotalCalls = 2 * NumRequests
    /\ TotalRefreshes = NumRequests

\* C3: when the first call got 401 and the refresh did not succeed, there is
\* no second call and the request fails with the first response, the 401.
C3_FailedRefreshKeepsFirst401 ==
    \A r \in Requests :
        (Got(r, 1, 401) /\ refreshResults[r] = <<FALSE>>) =>
            /\ Len(sent[r]) = 1
            /\ Len(responses[r]) = 1
            /\ pc[r] = "failed"
            /\ outcome[r] = [kind |-> "HTTPError", status |-> 401, call |-> 1]

C3_Witness ==
    \E r \in Requests :
        /\ Got(r, 1, 401)
        /\ refreshResults[r] = <<FALSE>>
        /\ outcome[r].kind = "HTTPError"

\* C4: every body put on the wire, the retry's included, has stream = true,
\* whatever the client's stream flag.
C4_AlwaysStreamsUpstream ==
    \A r \in Requests : \A i \in DOMAIN sent[r] : sent[r][i].body.stream = "true"

C4_Witness ==
    \E r \in Requests :
        /\ Len(sent[r]) = 2
        /\ payload[r].stream \in {"false", Null, Undefined}

\* normalize as section 4.1 states it: the canonical name of a known alias,
\* any other id unchanged.
SpecNormalize(id) ==
    IF \E i \in DOMAIN modelAliasEntries : modelAliasEntries[i][1] = id
    THEN modelAliasEntries[CHOOSE i \in DOMAIN modelAliasEntries :
                              modelAliasEntries[i][1] = id][2]
    ELSE id

\* C5: the model of every body put on the wire, the retry's included, is
\* normalize(client model), and is never an alias key.
C5_ModelNormalizedOnWire ==
    \A r \in Requests : \A i \in DOMAIN sent[r] :
        /\ sent[r][i].body.model = SpecNormalize(payload[r].model)
        /\ sent[r][i].body.model \notin AliasKeys

-----------------------------------------------------------------------------
(* The alias registry: C6 - C7, checked under SpecAlias *)

\* C6: normalizeModelName applied to its own result returns that result, and
\* no canonical value of the table is an alias key.
C6_NormalizeIdempotent ==
    /\ Len(normalized) = 3 => normalized[3] = normalized[2]
    /\ \A i \in DOMAIN modelAliasEntries :
          normalizeModelName(modelAliasEntries[i][2]) = modelAliasEntries[i][2]

C6_Witness ==
    /\ Len(normalized) = 3
    /\ normalized[1] \in AliasKeys
    /\ normalized[2] # normalized[1]

NoDuplicates(q) == \A i, j \in DOMAIN q : q[i] = q[j] => i = j

FirstIndex(q, x) == CHOOSE i \in DOMAIN q : q[i] = x /\ \A j \in 1..(i - 1) : q[j] # x

\* q[from + 1 ..] starts with the sequence run.
FollowedBy(q, from, run) ==
    /\ from + Len(run) <= Len(q)
    /\ \A j \in DOMAIN run : q[from + j] = run[j]

RECURSIVE Without(_, _)
Without(q, S) ==
    IF q = <<>> THEN <<>>
    ELSE IF Head(q) \in S THEN Without(Tail(q), S)
    ELSE <<Head(q)>> \o Without(Tail(q), S)

Range(q) == {q[i] : i \in DOMAIN q}

\* C7 as stated: the output has no id twice, and every input id is directly
\* followed, at its first occurrence in the output, by all its aliases.
C7_AliasesFollowEveryId ==
    ExpandDone =>
        /\ NoDuplicates(expandedModelIds)
        /\ \A i \in DOMAIN modelIds :
              /\ modelIds[i] \in Range(expandedModelIds)
              /\ FollowedBy(expandedModelIds,
                            FirstIndex(expandedModelIds, modelIds[i]),
                            getModelAliases(modelIds[i]))

\* C7 amended: the output has no id twice, and every input id is directly
\* followed, at its first occurrence in the output, by those of its aliases
\* that the output does not hold before it, in table order.
C7_NewAliasesFollowEveryId ==
    ExpandDone =>
        /\ NoDuplicates(expandedModelIds)
        /\ \A i \in DOMAIN modelIds :
              /\ modelIds[i] \in Range(expandedModelIds)
              /\ LET at == FirstIndex(expandedModelIds, modelIds[i])
                     before == Range(SubSeq(expandedModelIds, 1, at - 1))
                 IN FollowedBy(expandedModelIds, at,
                               Without(getModelAliases(modelIds[i]), before))

C7_Witness ==
    /\ ExpandDone
    /\ \E i, j \in DOMAIN modelIds :
          /\ i < j
          /\ modelIds[j] = normalizeModelName(modelIds[i])
          /\ modelIds[i] \in AliasKeys
    /\ \E i, j \in DOMAIN modelIds : i # j /\ modelIds[i] = modelIds[j]
    /\ Len(expandedModelIds) > Cardinality(Range(modelIds))

-----------------------------------------------------------------------------
(* The accumulator: C8 - C10, checked under SpecFold *)

TextPieces == {"", "a", "b", "ab"}

HasText(ev) ==
    /\ ev.kind = "json"
    /\ ev.chunk.choices # <<>>
    /\ ev.chunk.choices[1].content \notin {Undefined, Null}

WithContent(ev, s) == [ev EXCEPT !.chunk.choices[1].content = s]

\* The event at k replaced by two copies of it that carry s1 and s2.
SplitAt(events, k, s1, s2) ==
    SubSeq(events, 1, k - 1)
        \o <<WithContent(events[k], s1), WithContent(events[k], s2)>>
        \o SubSeq(events, k + 1, Len(events))

SplitsKeepResponse(k) ==
    \A s1, s2 \in TextPieces :
        s1 \o s2 = stream[k].chunk.choices[1].content =>
            collectStreamToResponse(SplitAt(stream, k, s1, s2)) = response

CarriesArguments(ev) ==
    \E j \in DOMAIN ev.chunk.choices[1].tool_calls :
        Truthy(ev.chunk.choices[1].tool_calls[j].arguments)

\* C8 as stated: splitting the text of any one event over two consecutive
\* copies of the event leaves the response unchanged.
C8_SplitInvariant ==
    foldPc = "done" =>
        \A k \in DOMAIN stream : HasText(stream[k]) => SplitsKeepResponse(k)

\* C8 amended: splitting the text of any one event whose delta carries no
\* tool-call fragment with non-empty arguments over two consecutive copies of
\* the event leaves the response unchanged.
C8_SplitInvariantWithoutArguments ==
    foldPc = "done" =>
        \A k \in DOMAIN stream :
            (HasText(stream[k]) /\ ~CarriesArguments(stream[k])) =>
                SplitsKeepResponse(k)

C8_Witness ==
    /\ foldPc = "done"
    /\ \E k \in DOMAIN stream :
          /\ k < Len(stream)
          /\ HasText(stream[k])
          /\ stream[k].chunk.choices[1].content = "ab"
          /\ ~CarriesArguments(stream[k])
          /\ HasText(stream[k + 1])
    /\ response.choices[1].message.content = "abab"

\* The events the loop reads: those before the first [DONE].
RECURSIVE BeforeDone(_)
BeforeDone(events) ==
    IF events = <<>> \/ Head(events).kind = "done" THEN <<>>
    ELSE <<Head(events)>> \o BeforeDone(Tail(events))

RemoveAt(events, k) == SubSeq(events, 1, k - 1) \o SubSeq(events, k + 1, Len(events))

\* C9: a malformed event before the sentinel changes nothing: the response
\* is the one the same events without it give.
C9_MalformedEventSkipped ==
    foldPc = "done" =>
        \A k \in DOMAIN BeforeDone(stream) :
            stream[k] = MalformedEvent =>
                response = collectStreamToResponse(RemoveAt(stream, k))

C9_Witness ==
    /\ foldPc = "done"
    /\ Len(stream) = 3
    /\ HasText(stream[1])
    /\ stream[2] = MalformedEvent
    /\ HasText(stream[3])
    /\ response.choices[1].message.content = "aba"

\* The tool-call fragments the loop reads, in arrival order.
RECURSIVE Fragments(_)
Fragments(events) ==
    IF events = <<>> THEN <<>>
    ELSE (IF Head(events).kind = "json" /\ Head(events).chunk.choices # <<>>
          THEN Head(events).chunk.choices[1].tool_calls ELSE <<>>)
         \o Fragments(Tail(events))

RECURSIVE ConcatArguments(_, _)
ConcatArguments(frags, index) ==
    IF frags = <<>> THEN ""
    ELSE (IF Head(frags).index = index /\ Truthy(Head(frags).arguments)
          THEN Head(frags).arguments ELSE "")
         \o ConcatArguments(Tail(frags), index)

\* The first non-empty value of a field among the fragments of an index.
RECURSIVE FirstNonEmpty(_, _, _)
FirstNonEmpty(frags, index, field) ==
    IF frags = <<>> THEN ""
    ELSE IF Head(frags).index = index /\ Truthy(Head(frags)[field])
    THEN Head(frags)[field]
    ELSE FirstNonEmpty(Tail(frags), index, field)

\* C10: the response holds one tool call for each index of the stream, with
\* the concatenated arguments and the first non-empty id and name of that index.
C10_ToolCallsMergedPerIndex ==
    foldPc = "done" =>
        LET frags == Fragments(BeforeDone(stream))
            indices == {frags[j].index : j \in DOMAIN frags}
            message == response.choices[1].message
            held == IF "tool_calls" \in DOMAIN message THEN message.tool_calls ELSE <<>>
        IN /\ Len(held) = Cardinality(indices)
           /\ Len(accumulator.toolCalls) = Cardinality(indices)
           /\ \A i \in indices :
                 /\ Cardinality(ToolCallAt(accumulator.toolCalls, i)) = 1
                 /\ LET k == CHOOSE j \in ToolCallAt(accumulator.toolCalls, i) : TRUE
                    IN held[k] =
                          [id |-> FirstNonEmpty(frags, i, "id"),
                           type |-> "function",
                           function |->
                              [name |-> FirstNonEmpty(frags, i, "name"),
                               arguments |-> ConcatArguments(frags, i)]]

C10_Witness ==
    /\ foldPc = "done"
    /\ "tool_calls" \in DOMAIN response.choices[1].message
    /\ \E k \in DOMAIN response.choices[1].message.tool_calls :
          response.choices[1].message.tool_calls[k] =
              [id |-> "a", type |-> "function",
               function |-> [name |-> "f", arguments |-> "yxz"]]

-----------------------------------------------------------------------------
(* The order of the tool calls: C11, checked under SpecFold *)

\* C11: the response lists the merged tool calls in ascending index order,
\* whatever order the fragments arrived in, and has no tool_calls when the
\* stream held no fragment.
C11_ToolCallsInIndexOrder ==
    foldPc = "done" =>
        LET frags == Fragments(BeforeDone(stream))
            message == response.choices[1].message
            merged == accumulator.toolCalls
        IN /\ ("tool_calls" \in DOMAIN message) <=> (frags # <<>>)
           /\ "tool_calls" \in DOMAIN message =>
                 /\ message.tool_calls = ToolCallValues(merged)
                 /\ \A j, k \in DOMAIN merged :
                       j < k => merged[j].index < merged[k].index

-----------------------------------------------------------------------------
(* The streaming pass-through: C12, checked under SpecHandler *)

\* C12 as stated: a client that asked for a stream receives the upstream's
\* events in order, once each and unmodified, and what it receives ends with
\* the one [DONE] event.
C12_PassThroughEndsWithDone ==
    /\ handlerPc \in {"streaming", "closed"} => written = SubSeq(stream, 1, consumed)
    /\ handlerPc = "closed" =>
          /\ written = stream
          /\ written # <<>>
          /\ \A i \in DOMAIN written : written[i] = DoneEvent <=> i = Len(written)

\* C12, amended: a client that asked for a stream receives the upstream's
\* events in order, once each and unmodified, and nothing else; what it
\* receives ends with a [DONE] event exactly when the upstream's sequence does.
C12_PassThroughMirrorsUpstream ==
    /\ handlerPc \in {"streaming", "closed"} => written = SubSeq(stream, 1, consumed)
    /\ handlerPc = "closed" =>
          /\ written = stream
          /\ (written # <<>> /\ written[Len(written)] = DoneEvent)
                <=> (stream # <<>> /\ stream[Len(stream)] = DoneEvent)
    /\ handlerPc \notin {"streaming", "closed"} => written = <<>>

\* A closed client stream that carried a chunk, an event without data and the
\* upstream's [DONE].
C12_Witness ==
    /\ handlerPc = "closed"
    /\ Len(written) = MaxEvents
    /\ written[Len(written)] = DoneEvent
    /\ \E i \in DOMAIN written : written[i].kind = "json"
    /\ \E i \in DOMAIN written : written[i].kind = "nodata"

-----------------------------------------------------------------------------
(* The model listing: C13, checked under SpecAlias *)

RowIds(rows) == [i \in DOMAIN rows |-> rows[i].id]

\* C13: for a catalog of canonical ids the listing has one row per id of the
\* expanded catalog, in that order, each with the vendor and name of the
\* catalog entry its id normalizes to; the catalog ["claude-opus-4.6-1m"]
\* lists that id and its two aliases; every catalog id has a row.
C13_ListingRowPerExpandedId ==
    (listing.sent /\ Range(modelIds) \cap AliasKeys = {}) =>
        LET catalog == Catalog(modelIds)
            rows == listing.data
        IN /\ RowIds(rows) = expandedModelIds
           /\ \A i \in DOMAIN rows :
                 \E k \in DOMAIN catalog :
                    /\ catalog[k].id = SpecNormalize(rows[i].id)
                    /\ rows[i].owned_by = catalog[k].vendor
                    /\ rows[i].display_name = catalog[k].name
           /\ modelIds = <<"claude-opus-4.6-1m">> =>
                 RowIds(rows) = <<"claude-opus-4.6-1m", "claude-opus-4-6[1M]", "claude-opus-4-6">>
           /\ Range(modelIds) \subseteq Range(RowIds(rows))

-----------------------------------------------------------------------------
(* The manual refresh: C14, checked under SpecTokenRoute *)

\* C14: a POST /token/refresh whose acquisition succeeds stores the acquired
\* credential in place of the old one and answers success; one whose
\* acquisition fails answers an error with a non-2xx status and leaves the
\* stored credential as it found it.
C14_ManualRefreshReplacesOrKeeps ==
    \A p \in RefreshPosts :
        refreshPc[p] = "replied" =>
            LET reply == refreshReply[p]
                trace == refreshTrace[p]
            IN IF trace.acquired.ok
               THEN /\ trace.after = trace.acquired.token
                    /\ ResponseOk(reply.status)
                    /\ reply.success
                    /\ reply.error = Undefined
               ELSE /\ trace.after = trace.before
                    /\ ~ResponseOk(reply.status)
                    /\ ~reply.success
                    /\ reply.error # Undefined

\* One refresh has replaced a stored credential by another, and a later one
\* has failed and left that one in place.
C14_Witness ==
    \E p, q \in RefreshPosts :
        /\ refreshPc[p] = "replied" /\ refreshPc[q] = "replied"
        /\ refreshTrace[p].acquired.ok
        /\ refreshTrace[p].before \notin {0, refreshTrace[p].after}
        /\ ~refreshTrace[q].acquired.ok
        /\ refreshTrace[q].before = refreshTrace[p].after
        /\ copilotToken = refreshTrace[p].acquired.token

-----------------------------------------------------------------------------
(* The latched fields and the finish reason: C15, C16, checked under SpecFold *)

\* The chunks the loop has applied so far: the parsed events among those read.
AppliedHeaders ==
    LET read == SubSeq(stream, 1, consumed)
        at == {i \in DOMAIN read : read[i].kind = "json"}
    IN [i \in at |-> read[i].chunk.header]

\* The value the first applied chunk with a non-empty value states, else the
\* accumulator's initial one.
FirstStated(nonEmpty(_), value(_), initial) ==
    LET at == {i \in DOMAIN AppliedHeaders : nonEmpty(AppliedHeaders[i])} IN
    IF at = {} THEN initial
    ELSE value(AppliedHeaders[CHOOSE i \in at : \A j \in at : i <= j])

\* C15: at every point of a fold the accumulator's id, model, created and
\* system fingerprint are each the first non-empty value an applied event
\* stated for it, and the response carries these values.
C15_HeaderFieldsLatchFirst ==
    foldPc \in {"consuming", "done"} =>
        LET id == FirstStated(LAMBDA h : Truthy(h.id), LAMBDA h : h.id, "")
            model == FirstStated(LAMBDA h : Truthy(h.model), LAMBDA h : h.model, "")
            created == FirstStated(LAMBDA h : h.created # 0, LAMBDA h : h.created, 0)
            fingerprint == FirstStated(LAMBDA h : Truthy(h.system_fingerprint),
                                       LAMBDA h : h.system_fingerprint, Undefined)
        IN /\ accumulator.id = id
           /\ accumulator.model = model
           /\ accumulator.created = created
           /\ accumulator.systemFingerprint = fingerprint
           /\ foldPc = "done" =>
                 /\ response.id = id
                 /\ response.model = model
                 /\ response.created = created
                 /\ IF fingerprint = Undefined
                    THEN "system_fingerprint" \notin DOMAIN response
                    ELSE /\ "system_fingerprint" \in DOMAIN response
                         /\ response.system_fingerprint = fingerprint

\* A fold over three chunks: the first states only an id and a fingerprint,
\* the next two state all four fields, with different values.
C15_Witness ==
    /\ foldPc = "done"
    /\ Len(stream) = 3
    /\ \A i \in 1..3 : stream[i].kind = "json"
    /\ stream[1].chunk.header = PartialHeader
    /\ stream[2].chunk.header \in FullHeaders
    /\ stream[3].chunk.header \in FullHeaders \ {stream[2].chunk.header}
    /\ response.id = "id3"
    /\ response.model = stream[2].chunk.header.model
    /\ response.created = stream[2].chunk.header.created
    /\ response.system_fingerprint = "fp3"

\* The finish reason the first choice of an event carries, if it carries one.
CarriedFinish(ev) ==
    IF ev.kind = "json" /\ ev.chunk.choices # <<>>
       /\ Truthy(ev.chunk.choices[1].finish_reason)
    THEN ev.chunk.choices[1].finish_reason
    ELSE Undefined

\* The finish reason of the last of the events that carries one, else "stop".
LastFinish(events) ==
    LET at == {i \in DOMAIN events : CarriedFinish(events[i]) # Undefined} IN
    IF at = {} THEN "stop"
    ELSE CarriedFinish(events[CHOOSE i \in at : \A j \in at : j <= i])

TextChunk(text) ==
    [kind |-> "json",
     chunk |-> [header |-> BlankHeader, choices |-> <<Choice(Null, text, <<>>)>>]]

FinishChunk(finish) ==
    [kind |-> "json",
     chunk |-> [header |-> BlankHeader, choices |-> <<Choice(finish, Undefined, <<>>)>>]]

\* C16: the response's finish_reason is that of the last event before the
\* sentinel whose first choice carries one, and "stop" when there is none;
\* the chunks "Hel", "lo", then finish_reason "stop" give content "Hello" and
\* finish_reason "stop"; the events after the sentinel are not read and the
\* response is the one the events before it give.
C16_LastFinishReasonBeforeDone ==
    /\ foldPc = "done" =>
          /\ response.choices[1].finish_reason = LastFinish(BeforeDone(stream))
          /\ response = collectStreamToResponse(BeforeDone(stream))
          /\ consumed <= Len(BeforeDone(stream)) + 1
    /\ LET hello == collectStreamToResponse(
                        <<TextChunk("Hel"), TextChunk("lo"), FinishChunk("stop")>>)
       IN /\ hello.choices[1].message.content = "Hello"
          /\ hello.choices[1].finish_reason = "stop"

\* A fold that read an event carrying one finish reason, then one carrying
\* another, then the sentinel.
C16_Witness ==
    /\ foldPc = "done"
    /\ Len(stream) = 3
    /\ stream[3] = DoneEvent
    /\ CarriedFinish(stream[1]) # Undefined
    /\ CarriedFinish(stream[2]) \notin {Undefined, "stop", CarriedFinish(stream[1])}
    /\ response.choices[1].finish_reason = CarriedFinish(stream[2])

-----------------------------------------------------------------------------
(* The failures without a retry: C17, C19, checked under Spec *)

\* C17: a request that reaches the relay while the store holds no credential
\* fails in that step, with no upstream call and no refresh; a request that
\* failed so never calls or refreshes afterwards.
C17_NoCredentialFailsAtOnce ==
    [][\A r \in Requests :
          /\ (pc[r] = "idle" /\ pc'[r] # "idle" /\ copilotToken = 0) =>
                /\ pc'[r] = "failed"
                /\ outcome'[r].kind = "Error"
                /\ sent'[r] = <<>>
                /\ responses'[r] = <<>>
                /\ refreshResults'[r] = <<>>
                /\ copilotToken' = 0
          /\ outcome[r].kind = "Error" =>
                /\ pc'[r] = "failed"
                /\ outcome'[r] = outcome[r]
                /\ sent'[r] = <<>>
                /\ refreshResults'[r] = <<>>]_vars

\* Every request has arrived at a store without a credential and has failed
\* without a call.
C17_Witness ==
    /\ copilotToken = 0
    /\ \A r \in Requests :
          /\ payload[r] # NoPayload
          /\ pc[r] = "failed"
          /\ outcome[r].kind = "Error"
          /\ sent[r] = <<>>

\* The first response of request r arrives in this step with a status that
\* is neither 2xx nor 401.
FirstCallRefused(r) ==
    /\ pc[r] = "await1"
    /\ Len(responses'[r]) = 1
    /\ ~responses'[r][1].rejected
    /\ ~ResponseOk(responses'[r][1].status)
    /\ responses'[r][1].status # 401

\* C19: when the first call's response is non-2xx and not 401, that step
\* fails the request with the one error carrying that response, without a
\* refresh or a second call and with the store untouched; the failed request
\* never calls or refreshes afterwards.
C19_OtherErrorFailsWithoutRetry ==
    [][\A r \in Requests :
          /\ FirstCallRefused(r) =>
                /\ pc'[r] = "failed"
                /\ outcome'[r] = [kind |-> "HTTPError",
                                  status |-> responses'[r][1].status, call |-> 1]
                /\ sent'[r] = sent[r] /\ Len(sent[r]) = 1
                /\ refreshResults'[r] = <<>>
                /\ copilotToken' = copilotToken
          /\ (pc[r] = "failed" /\ outcome[r].kind = "HTTPError" /\ outcome[r].call = 1
              /\ outcome[r].status # 401) =>
                /\ pc'[r] = "failed"
                /\ outcome'[r] = outcome[r]
                /\ Len(sent'[r]) = 1
                /\ refreshResults'[r] = <<>>]_vars

\* A request has failed on a first response of 403 and another on one of
\* 500, each after one call and no refresh.
C19_Witness ==
    \E r, q \in Requests :
        /\ Got(r, 1, 403) /\ Got(q, 1, 500)
        /\ \A x \in {r, q} :
              /\ pc[x] = "failed"
              /\ outcome[x].kind = "HTTPError"
              /\ outcome[x].status = responses[x][1].status
              /\ Len(sent[x]) = 1
              /\ RefreshCalls(x) = 0

-----------------------------------------------------------------------------
(* The model of the buffered response: C18, checked under SpecHandler *)

\* The model name the first event before the sentinel that states one states.
StatedModel(events) ==
    LET read == BeforeDone(events)
        at == {i \in DOMAIN read :
                  read[i].kind = "json" /\ Truthy(read[i].chunk.header.model)}
    IN IF at = {} THEN Undefined
       ELSE read[CHOOSE i \in at : \A j \in at : i <= j].chunk.header.model

\* C18: the JSON reply to a request without stream = true has the model the
\* upstream stated, and the model the client asked for when the upstream
\* stated none.
C18_ModelEchoesRequest ==
    handlerPc = "replied" =>
        response.model = IF StatedModel(stream) = Undefined
                         THEN request.model
                         ELSE StatedModel(stream)

-----------------------------------------------------------------------------
(* The concurrent folds: C20, checked under SpecConcurrent *)

\* C20: whatever the interleaving of the calls' events, the accumulator of a
\* call in its loop is the fold of the events that call has read, and the
\* response of a finished call is the fold of its own stream.
C20_FoldsDoNotInterfere ==
    \A r \in Requests :
        /\ inFlight[r].pc = "consuming" =>
              heap[AccumulatorRef(r)] =
                  FoldFrom(createAccumulator,
                           SubSeq(inFlight[r].stream, 1, inFlight[r].consumed))
        /\ inFlight[r].pc = "done" =>
              buffered[r] = collectStreamToResponse(inFlight[r].stream)

\* Two calls on different streams have finished, each having been in its
\* loop while the other read an event.
C20_Witness ==
    \E r, q \in Requests :
        /\ inFlight[r].pc = "done" /\ inFlight[q].pc = "done"
        /\ inFlight[r].stream # inFlight[q].stream
        /\ inFlight[r].meanwhile >= 2 /\ inFlight[q].meanwhile >= 2
        /\ buffered[r] # buffered[q]
        /\ "tool_calls" \in DOMAIN buffered[r].choices[1].message

=============================================================================
